---- MODULE Spec2Model ----
(***************************************************************************)
(* Model of amethyst_ui's DragWidgetSystem (src/amethyst_ui/src/drag.rs).  *)
(*                                                                         *)
(* One step of Run is one call of DragWidgetSystem::run; the other actions *)
(* are the collaborating systems that write the resources run() reads.    *)
(*                                                                         *)
(* f32 values are modelled as exact rationals <<n, d>> (d > 0, lowest      *)
(* terms).  Pointer coordinates are small integers and widths/heights are  *)
(* positive, so no NaN/infinity arises.                                    *)
(***************************************************************************)
EXTENDS Integers, Sequences, FiniteSets, TLC

VARIABLES
    record,             \* DragWidgetSystem.record : entity -> (first, prev)
    ui_events,          \* EventChannel<UiEvent> seen from ui_reader_id : the events not yet read
    mouse,              \* InputHandler::mouse_position() : None or <<x, y>>
    screen_dimensions,  \* ScreenDimensions : [width, height]
    hierarchy,          \* ParentHierarchy : entity -> parent or None
    hiddens,            \* ReadStorage<Hidden>
    hidden_props,       \* ReadStorage<HiddenPropagate>
    draggables,         \* ReadStorage<Draggable>
    ui_transforms,      \* WriteStorage<UiTransform> : entity -> transform (partial)
    panicked,           \* TRUE once an unwrap() in run() has failed
    frame,              \* history: what the run that has just ended observed and did
    resolved,           \* latest stand-alone get_scale_for_entity : << entity, result, calls >>
    click_pos,          \* history: pointer of the run that last started a session of the entity
    start_pos           \* history: local position of the entity when that session was started

vars == << record, ui_events, mouse, screen_dimensions, hierarchy, hiddens,
           hidden_props, draggables, ui_transforms, panicked, frame, resolved, click_pos,
           start_pos >>

(***************************************************************************)
(* Bounds of the model.                                                    *)
(***************************************************************************)
\* events other systems may append between two runs of the controller
MaxPosted == 2
\* largest |local_x|, |local_y| a run may produce (caps the drift of a widget)
MaxCoord == 1

Entities == {1, 2, 3}
None == 0
\* Option::None of a position or of a transform
Nothing == << >>
Panic == "panic"

(***************************************************************************)
(* Exact arithmetic standing for f32.                                      *)
(***************************************************************************)
Abs(n) == IF n < 0 THEN -n ELSE n

RECURSIVE GCD(_, _)
GCD(a, b) == IF b = 0 THEN a ELSE GCD(b, a % b)

\* the rational n/d in lowest terms, d > 0
Rat(n, d) ==
    LET g == GCD(Abs(n), Abs(d))
        s == IF d < 0 THEN -1 ELSE 1
    IN  << (s * n) \div g, (s * d) \div g >>

RAdd(p, q) == Rat(p[1] * q[2] + q[1] * p[2], p[2] * q[2])
RMul(p, q) == Rat(p[1] * q[1], p[2] * q[2])
RDiv(p, q) == Rat(p[1] * q[2], p[2] * q[1])
RInt(k) == << k, 1 >>
ROne == RInt(1)

\* Vector2 subtraction (mouse_pos - *first, mouse_pos - *prev)
VSub(a, b) == << a[1] - b[1], a[2] - b[2] >>

(***************************************************************************)
(* Ancestor scale resolver.                                                *)
(***************************************************************************)
RECURSIVE get_scale_for_entity(_, _, _, _)
RECURSIVE get_scale_for_percent_mode_entity(_, _, _, _)

\* mutant: the denominators are always the screen's
ParentSizeScreen(entity, hier, transforms, screen) ==
    [width |-> screen.width, height |-> screen.height]

\* the denominators of a Percent entity: the parent's size when the parent
\* owns a transform, the screen's otherwise
ParentSize(entity, hier, transforms, screen) ==
    IF hier[entity] # None /\ hier[entity] \in DOMAIN transforms
    THEN [width  |-> transforms[hier[entity]].width,
          height |-> transforms[hier[entity]].height]
    ELSE [width |-> screen.width, height |-> screen.height]

\* the scale the division starts from: the parent's resolved scale, or (1, 1)
\* for an entity without parent
ParentScale(entity, hier, transforms, screen) ==
    IF hier[entity] # None
    THEN get_scale_for_entity(hier[entity], hier, transforms, screen)
    ELSE << ROne, ROne >>

\* mutant: the parent's scale is replaced, not composed
DivideScaleReplace(parent_scale, size) ==
    << RDiv(ROne, RInt(size.width)), RDiv(ROne, RInt(size.height)) >>

\* parent_scale / parent_size, component-wise
DivideScale(parent_scale, size) ==
    << RDiv(parent_scale[1], RInt(size.width)),
       RDiv(parent_scale[2], RInt(size.height)) >>

get_scale_for_percent_mode_entity(entity, hier, transforms, screen) ==
    LET size   == ParentSize(entity, hier, transforms, screen)
        pscale == ParentScale(entity, hier, transforms, screen)
    IN  IF pscale = Panic THEN Panic ELSE DivideScale(pscale, size)

\* the scale of a Pixel-mode entity
PixelScale == << ROne, ROne >>

get_scale_for_entity(entity, hier, transforms, screen) ==
    IF entity \notin DOMAIN transforms
    THEN Panic      \* ui_transforms.get(entity).unwrap()
    ELSE IF transforms[entity].scale_mode = "Pixel"
         THEN PixelScale
         ELSE get_scale_for_percent_mode_entity(entity, hier, transforms, screen)

\* mutant: the recursion goes on past a Pixel-mode entity, up to the root
RECURSIVE get_scale_calls_to_root(_, _, _)
get_scale_calls_to_root(entity, hier, transforms) ==
    IF entity \notin DOMAIN transforms \/ hier[entity] = None
    THEN << entity >>
    ELSE << entity >> \o get_scale_calls_to_root(hier[entity], hier, transforms)

\* history: the entities get_scale_for_entity is called for, in call order,
\* when it is called for `entity`; the last call is the one that returns
\* without recursing (or whose unwrap fails)
RECURSIVE get_scale_calls(_, _, _)
get_scale_calls(entity, hier, transforms) ==
    IF entity \notin DOMAIN transforms
    THEN << entity >>
    ELSE IF transforms[entity].scale_mode = "Pixel" \/ hier[entity] = None
         THEN << entity >>
         ELSE << entity >> \o get_scale_calls(hier[entity], hier, transforms)

(***************************************************************************)
(* Events and the channel.                                                 *)
(***************************************************************************)
UiEvent(type, target) == [event_type |-> type, target |-> target]

\* mutant: the offset is taken from the pointer to the origin
DraggingEventReversed(entity, first, mouse_pos) ==
    [event_type |-> "Dragging", target |-> entity,
     offset_from_mouse |-> VSub(first, mouse_pos), new_position |-> mouse_pos]

\* UiEvent::new(UiEventType::Dragging { offset_from_mouse, new_position }, entity)
DraggingEvent(entity, first, mouse_pos) ==
    [event_type |-> "Dragging", target |-> entity,
     offset_from_mouse |-> VSub(mouse_pos, first), new_position |-> mouse_pos]

\* UiEvent::new(UiEventType::Dropped { dropped_on }, entity)
DroppedEvent(entity, dropped_on) ==
    [event_type |-> "Dropped", target |-> entity, dropped_on |-> dropped_on]

\* ui_events.read(&mut self.ui_reader_id): the unread events, in arrival order
ReadNew(channel) == channel

\* mutant: read() leaves the reader where it was
AfterReadKeep(channel) == channel

\* what is unread once read() has moved the reader to the end of the channel
AfterRead(channel) == << >>

\* ui_events.single_write(event) of the controller, one call per event of `events`
Write(channel, events) == channel \o events

(***************************************************************************)
(* Event ingestion.                                                        *)
(***************************************************************************)
EmptyMap == [e \in {} |-> None]

\* HashMap::insert
Insert(map, key, value) ==
    [k \in (DOMAIN map) \cup {key} |-> IF k = key THEN value ELSE map[k]]

\* HashMap::remove
Remove(map, key) == [k \in (DOMAIN map) \ {key} |-> map[k]]

\* mutant: a ClickStart leaves an existing session alone
OnClickStartKeep(rec, target, mouse_pos, drags) ==
    IF target \in drags /\ target \notin DOMAIN rec
    THEN Insert(rec, target, [first |-> mouse_pos, prev |-> mouse_pos])
    ELSE rec

\* mutant: a ClickStart starts a session whether or not the target is Draggable
OnClickStartAny(rec, target, mouse_pos, drags) ==
    Insert(rec, target, [first |-> mouse_pos, prev |-> mouse_pos])

\* mutant: a ClickStart on an entity under drag resets first and keeps prev
OnClickStartOriginOnly(rec, target, mouse_pos, drags) ==
    IF target \in drags
    THEN Insert(rec, target,
                [first |-> mouse_pos,
                 prev  |-> IF target \in DOMAIN rec THEN rec[target].prev ELSE mouse_pos])
    ELSE rec

\* UiEventType::ClickStart arm
OnClickStart(rec, target, mouse_pos, drags) ==
    IF target \in drags
    THEN Insert(rec, target, [first |-> mouse_pos, prev |-> mouse_pos])
    ELSE rec

\* mutant: the stop is recorded without looking the target up in the table
OnClickStopUnchecked(rec, click_stopped, target) == click_stopped \cup {target}

\* UiEventType::ClickStop arm
OnClickStop(rec, click_stopped, target) ==
    IF target \in DOMAIN rec THEN click_stopped \cup {target} ELSE click_stopped

\* mutant: the ClickStarts are processed before the ClickStops, whatever the
\* order of arrival
IngestStartsFirst(events, rec, click_stopped, mouse_pos, drags) ==
    LET starts == {events[i].target : i \in {j \in 1..Len(events) :
                       events[j].event_type = "ClickStart" /\ events[j].target \in drags}}
        rec2   == [e \in (DOMAIN rec) \cup starts |->
                     IF e \in starts THEN [first |-> mouse_pos, prev |-> mouse_pos]
                     ELSE rec[e]]
        stops  == {events[i].target : i \in {j \in 1..Len(events) :
                       events[j].event_type = "ClickStop"
                       /\ events[j].target \in DOMAIN rec2}}
    IN  [record |-> rec2, click_stopped |-> click_stopped \cup stops]

\* the for loop over the new events, in arrival order
RECURSIVE Ingest(_, _, _, _, _)
Ingest(events, rec, click_stopped, mouse_pos, drags) ==
    IF events = << >>
    THEN [record |-> rec, click_stopped |-> click_stopped]
    ELSE LET event == Head(events) IN
         CASE event.event_type = "ClickStart" ->
                Ingest(Tail(events), OnClickStart(rec, event.target, mouse_pos, drags),
                       click_stopped, mouse_pos, drags)
           [] event.event_type = "ClickStop" ->
                Ingest(Tail(events), rec, OnClickStop(rec, click_stopped, event.target),
                       mouse_pos, drags)
           [] OTHER ->
                Ingest(Tail(events), rec, click_stopped, mouse_pos, drags)

\* mutant: the scan marks the entities that are not hidden
HiddenScanNegated(rec, click_stopped, hid, hidp) ==
    click_stopped \cup {e \in DOMAIN rec : ~(e \in hid \/ e \in hidp)}

\* mutant: the scan looks at Hidden only
HiddenScanDirect(rec, click_stopped, hid, hidp) ==
    click_stopped \cup {e \in DOMAIN rec : e \in hid}

\* the scan of the session table for hidden entities
HiddenScan(rec, click_stopped, hid, hidp) ==
    click_stopped \cup {e \in DOMAIN rec : e \in hid \/ e \in hidp}

(***************************************************************************)
(* Per-frame update loop.                                                  *)
(***************************************************************************)
\* history: one effect of a run, in program order; `seen` holds the transform
\* of the dragged entity as the hit test read it
LogEntry(op, entity, seen) == [op |-> op, entity |-> entity, seen |-> seen]

\* mutant: the change is added to the size of the widget
MoveTransformSize(t, scale, change) ==
    [t EXCEPT !.width = @ + change[1], !.height = @ + change[2]]

\* ui_transform.local_x += scale_x * change[0]; local_y likewise
MoveTransform(t, scale, change) ==
    [t EXCEPT !.local_x = RAdd(@, RMul(scale[1], RInt(change[1]))),
              !.local_y = RAdd(@, RMul(scale[2], RInt(change[2])))]

\* mutant: prev is left at the pointer of the frame that started the session
UpdateEntityStale(st, entity, mouse_pos, hier, screen) ==
    LET session == st.record[entity]
        event   == DraggingEvent(entity, session.first, mouse_pos)
        change  == VSub(mouse_pos, session.prev)
        scale   == get_scale_for_entity(entity, hier, st.transforms, screen)
    IN  IF scale = Panic
        THEN [st EXCEPT !.events = Append(@, event),
                        !.log = Append(@, LogEntry("Dragging", entity, Nothing)),
                        !.panicked = TRUE]
        ELSE [st EXCEPT !.events = Append(@, event),
                        !.transforms[entity] = MoveTransform(@, scale, change),
                        !.log = @ \o << LogEntry("Dragging", entity, Nothing),
                                        LogEntry("Move", entity, Nothing) >>]

\* mutant: an entity whose scale cannot be resolved is skipped
UpdateEntitySkip(st, entity, mouse_pos, hier, screen) ==
    LET session == st.record[entity]
        event   == DraggingEvent(entity, session.first, mouse_pos)
        change  == VSub(mouse_pos, session.prev)
        scale   == get_scale_for_entity(entity, hier, st.transforms, screen)
    IN  IF scale = Panic
        THEN st
        ELSE [st EXCEPT !.events = Append(@, event),
                        !.transforms[entity] = MoveTransform(@, scale, change),
                        !.record[entity].prev = mouse_pos,
                        !.log = @ \o << LogEntry("Dragging", entity, Nothing),
                                        LogEntry("Move", entity, Nothing) >>]

\* one iteration of `for (entity, (first, prev)) in self.record.iter_mut()`;
\* st = [record, transforms, events, log, panicked]
UpdateEntity(st, entity, mouse_pos, hier, screen) ==
    LET session == st.record[entity]
        event   == DraggingEvent(entity, session.first, mouse_pos)
        change  == VSub(mouse_pos, session.prev)
        scale   == get_scale_for_entity(entity, hier, st.transforms, screen)
    IN  IF scale = Panic
        THEN [st EXCEPT !.events = Append(@, event),
                        !.log = Append(@, LogEntry("Dragging", entity, Nothing)),
                        !.panicked = TRUE]
        ELSE [st EXCEPT !.events = Append(@, event),
                        !.transforms[entity] = MoveTransform(@, scale, change),
                        !.record[entity].prev = mouse_pos,
                        !.log = @ \o << LogEntry("Dragging", entity, Nothing),
                                        LogEntry("Move", entity, Nothing) >>]

RECURSIVE UpdateLoop(_, _, _, _, _)
UpdateLoop(order, st, mouse_pos, hier, screen) ==
    IF order = << >> \/ st.panicked
    THEN st
    ELSE UpdateLoop(Tail(order), UpdateEntity(st, Head(order), mouse_pos, hier, screen),
                    mouse_pos, hier, screen)

(***************************************************************************)
(* Drop resolution.                                                        *)
(***************************************************************************)
\* mutant: the join does not filter on visibility
CandidatesAll(transforms, hid, hidp) == DOMAIN transforms

\* (&*entities, &ui_transforms, interactables.maybe(), !&hiddens, !&hidden_props).join()
Candidates(transforms, hid, hidp) ==
    {e \in DOMAIN transforms : e \notin hid /\ e \notin hidp}

\* the candidate the drop names: among the candidates under the pointer whose
\* stacking order is strictly below `height`, one of highest stacking order,
\* the lowest entity id among equals; None when there is none
targeted_below(under, height, candidates, transforms) ==
    LET eligible == {e \in candidates \cap under : transforms[e].global_z < height}
        top == {e \in eligible :
                   \A o \in eligible : transforms[o].global_z <= transforms[e].global_z}
    IN  IF eligible = {} THEN None
        ELSE CHOOSE e \in top : \A o \in top : e <= o

\* ui_transforms.get(*entity).unwrap().global_z
DraggedHeight(transforms, entity) == transforms[entity].global_z

\* one iteration of `for entity in click_stopped.iter()`
DropEntity(st, entity, under, hid, hidp) ==
    IF entity \notin DOMAIN st.transforms
    THEN [st EXCEPT !.panicked = TRUE]
    ELSE LET target == targeted_below(under, DraggedHeight(st.transforms, entity),
                                      Candidates(st.transforms, hid, hidp), st.transforms)
         IN  [st EXCEPT !.events = Append(@, DroppedEvent(entity, target)),
                        !.record = Remove(@, entity),
                        !.log = @ \o << LogEntry("HitTest", entity, << st.transforms[entity] >>),
                                        LogEntry("Dropped", entity, Nothing) >>]

RECURSIVE DropLoop(_, _, _, _, _)
DropLoop(order, st, under, hid, hidp) ==
    IF order = << >> \/ st.panicked
    THEN st
    ELSE DropLoop(Tail(order), DropEntity(st, Head(order), under, hid, hidp),
                  under, hid, hidp)

(***************************************************************************)
(* DragWidgetSystem::run.                                                  *)
(***************************************************************************)
\* mouse_position().unwrap_or((0., 0.)), flipped to UI space
MousePos(m, screen) ==
    LET mp == IF m = Nothing THEN << 0, 0 >> ELSE m
    IN  << mp[1], screen.height - mp[2] >>

\* the orders in which a HashMap/HashSet may iterate over the set S
Orders(S) ==
    {f \in [1..Cardinality(S) -> S] : \A i, j \in 1..Cardinality(S) : f[i] = f[j] => i = j}

RAbs(p) == << Abs(p[1]), p[2] >>
RLeq(p, q) == p[1] * q[2] <= q[1] * p[2]

\* the widget is at most MaxCoord pointer units away from where it was created
InRange(e, transforms, hier, screen) ==
    LET scale == get_scale_for_entity(e, hier, transforms, screen) IN
    scale # Panic =>
        /\ RLeq(RAbs(transforms[e].local_x), RMul(RInt(MaxCoord), scale[1]))
        /\ RLeq(RAbs(transforms[e].local_y), RMul(RInt(MaxCoord), scale[2]))

\* history: the local position of e, Nothing when e owns no transform
LocalPos(transforms, e) ==
    IF e \in DOMAIN transforms
    THEN << transforms[e].local_x, transforms[e].local_y >>
    ELSE Nothing

\* history: entities for which a ClickStart was consumed while they were Draggable
Started(consumed, drags) ==
    {consumed[i].target : i \in {j \in 1..Len(consumed) :
        consumed[j].event_type = "ClickStart" /\ consumed[j].target \in drags}}

\* the session table and the termination set once the events are ingested and
\* the table is scanned for hidden entities
Marked ==
    LET mouse_pos == MousePos(mouse, screen_dimensions)
        ingested  == Ingest(ReadNew(ui_events), record, {}, mouse_pos, draggables)
    IN  [record |-> ingested.record,
         click_stopped |-> HiddenScan(ingested.record, ingested.click_stopped,
                                      hiddens, hidden_props)]

\* mutant: the sessions marked for termination are dropped before the update
RunResultDropFirst(order, drop_order, under) ==
    LET mouse_pos == MousePos(mouse, screen_dimensions)
        st0 == [record |-> Marked.record, transforms |-> ui_transforms,
                events |-> << >>, log |-> << >>, panicked |-> FALSE]
        st1 == DropLoop(drop_order, st0, under, hiddens, hidden_props)
    IN  UpdateLoop(SelectSeq(order, LAMBDA e : e \in DOMAIN st1.record), st1,
                   mouse_pos, hierarchy, screen_dimensions)

\* mutant: the update loop leaves out the sessions marked for termination
RunResultUnmarkedOnly(order, drop_order, under) ==
    LET mouse_pos == MousePos(mouse, screen_dimensions)
        st0 == [record |-> Marked.record, transforms |-> ui_transforms,
                events |-> << >>, log |-> << >>, panicked |-> FALSE]
        st1 == UpdateLoop(SelectSeq(order, LAMBDA e : e \notin Marked.click_stopped),
                          st0, mouse_pos, hierarchy, screen_dimensions)
    IN  DropLoop(drop_order, st1, under, hiddens, hidden_props)

\* the update loop, then the drop loop, for one iteration order of the session
\* table, one of the termination set and one set of entities under the pointer
RunResult(order, drop_order, under) ==
    LET mouse_pos == MousePos(mouse, screen_dimensions)
        st0 == [record |-> Marked.record, transforms |-> ui_transforms,
                events |-> << >>, log |-> << >>, panicked |-> FALSE]
        st1 == UpdateLoop(order, st0, mouse_pos, hierarchy, screen_dimensions)
    IN  DropLoop(drop_order, st1, under, hiddens, hidden_props)

Run ==
    /\ ~panicked
    /\ \E order \in Orders(DOMAIN Marked.record) :
       \E drop_order \in Orders(Marked.click_stopped) :
       \E under \in (IF Marked.click_stopped = {} THEN {{}} ELSE SUBSET Entities) :
         LET st        == RunResult(order, drop_order, under)
             mouse_pos == MousePos(mouse, screen_dimensions)
             consumed  == ReadNew(ui_events)
         IN  /\ \A e \in DOMAIN st.transforms :
                    InRange(e, st.transforms, hierarchy, screen_dimensions)
             /\ record' = st.record
             /\ ui_transforms' = st.transforms
             /\ panicked' = st.panicked
             /\ ui_events' = Write(AfterRead(ui_events), st.events)
             /\ frame' = [ran |-> TRUE, mouse_pos |-> mouse_pos, consumed |-> consumed,
                          keys |-> DOMAIN Marked.record,
                          click_stopped |-> Marked.click_stopped,
                          under |-> under, log |-> st.log, emitted |-> st.events,
                          origin |-> [e \in Entities |->
                                        IF e \in Started(consumed, draggables)
                                        THEN mouse_pos ELSE click_pos[e]],
                          start |-> [e \in Entities |->
                                        IF e \in Started(consumed, draggables)
                                        THEN LocalPos(ui_transforms, e)
                                        ELSE start_pos[e]],
                          before |-> [record |-> record, ui_events |-> ui_events,
                                      ui_transforms |-> ui_transforms]]
             /\ click_pos' = [e \in Entities |->
                                IF e \notin DOMAIN st.record THEN Nothing
                                ELSE IF e \in Started(consumed, draggables) THEN mouse_pos
                                ELSE click_pos[e]]
             /\ start_pos' = [e \in Entities |->
                                IF e \notin DOMAIN st.record THEN Nothing
                                ELSE IF e \in Started(consumed, draggables)
                                     THEN LocalPos(ui_transforms, e)
                                ELSE start_pos[e]]
    /\ UNCHANGED << mouse, screen_dimensions, hierarchy, hiddens, hidden_props,
                    draggables, resolved >>

(***************************************************************************)
(* The collaborating systems.                                              *)
(***************************************************************************)
PostedTypes == {"ClickStart", "ClickStop", "HoverStart"}

NoFrame == [ran |-> FALSE, mouse_pos |-> << 0, 0 >>, consumed |-> << >>, keys |-> {},
            click_stopped |-> {}, under |-> {}, log |-> << >>, emitted |-> << >>,
            origin |-> [e \in Entities |-> << >>],
            start |-> [e \in Entities |-> << >>],
            before |-> [record |-> EmptyMap, ui_events |-> << >>,
                        ui_transforms |-> EmptyMap]]

\* events appended by other systems since the latest run
Posted == Len(SelectSeq(ui_events, LAMBDA ev : ev.event_type \in PostedTypes))

\* another system appends an event to the channel
Post(type, target) ==
    /\ ~panicked
    /\ Posted < MaxPosted
    /\ ui_events' = Append(ui_events, UiEvent(type, target))
    /\ frame' = NoFrame
    /\ UNCHANGED << record, mouse, screen_dimensions, hierarchy, hiddens, hidden_props,
                    draggables, ui_transforms, panicked, resolved, click_pos, start_pos >>

\* the input system reports a new pointer position
MoveMouse(m) ==
    /\ ~panicked
    /\ m # mouse
    /\ mouse' = m
    /\ frame' = NoFrame
    /\ UNCHANGED << record, ui_events, screen_dimensions, hierarchy, hiddens,
                    hidden_props, draggables, ui_transforms, panicked, resolved,
                    click_pos, start_pos >>

\* the visibility system sets or clears Hidden
ToggleHidden(e) ==
    /\ ~panicked
    /\ hiddens' = IF e \in hiddens THEN hiddens \ {e} ELSE hiddens \cup {e}
    /\ frame' = NoFrame
    /\ UNCHANGED << record, ui_events, mouse, screen_dimensions, hierarchy,
                    hidden_props, draggables, ui_transforms, panicked, resolved,
                    click_pos, start_pos >>

\* the visibility system sets or clears HiddenPropagate
ToggleHiddenPropagate(e) ==
    /\ ~panicked
    /\ hidden_props' = IF e \in hidden_props THEN hidden_props \ {e}
                       ELSE hidden_props \cup {e}
    /\ frame' = NoFrame
    /\ UNCHANGED << record, ui_events, mouse, screen_dimensions, hierarchy,
                    hiddens, draggables, ui_transforms, panicked, resolved, click_pos,
                    start_pos >>

\* another system adds or removes the Draggable marker
ToggleDraggable(e) ==
    /\ ~panicked
    /\ draggables' = IF e \in draggables THEN draggables \ {e} ELSE draggables \cup {e}
    /\ frame' = NoFrame
    /\ UNCHANGED << record, ui_events, mouse, screen_dimensions, hierarchy,
                    hiddens, hidden_props, ui_transforms, panicked, resolved, click_pos,
                    start_pos >>

\* the visibility system hides a widget that is under drag
HideDragged(e) ==
    /\ e \in DOMAIN record
    /\ e \notin hiddens
    /\ ToggleHidden(e)

\* another system removes the UiTransform component of an entity
RemoveTransform(e) ==
    /\ ~panicked
    /\ e \in DOMAIN ui_transforms
    /\ ui_transforms' = [k \in (DOMAIN ui_transforms) \ {e} |-> ui_transforms[k]]
    /\ frame' = NoFrame
    /\ UNCHANGED << record, ui_events, mouse, screen_dimensions, hierarchy, hiddens,
                    hidden_props, draggables, panicked, resolved, click_pos, start_pos >>

\* a stand-alone call of the resolver
Resolve(e) ==
    /\ resolved' = << e, get_scale_for_entity(e, hierarchy, ui_transforms,
                                              screen_dimensions),
                       get_scale_calls(e, hierarchy, ui_transforms) >>
    /\ UNCHANGED << record, ui_events, mouse, screen_dimensions, hierarchy, hiddens,
                    hidden_props, draggables, ui_transforms, panicked, frame,
                    click_pos, start_pos >>

(***************************************************************************)
(* Specifications.                                                         *)
(***************************************************************************)
Transform(mode, size, z) ==
    [local_x |-> RInt(0), local_y |-> RInt(0), width |-> size[1], height |-> size[2],
     global_z |-> z, scale_mode |-> mode]

ScaleModes == {"Pixel", "Percent"}
\* << width, height >> of a widget
Sizes == {<< 2, 4 >>, << 4, 8 >>}
Screen == [width |-> 8, height |-> 2]

\* DragWidgetSystem::new and a scene in which no drag has started
InitWith(hier, transforms, screen) ==
    /\ record = EmptyMap
    /\ ui_events = << >>
    /\ mouse = Nothing
    /\ screen_dimensions = screen
    /\ hierarchy = hier
    /\ hiddens = {}
    /\ hidden_props = {}
    /\ draggables = {2, 3}
    /\ ui_transforms = transforms
    /\ panicked = FALSE
    /\ frame = NoFrame
    /\ resolved = Nothing
    /\ click_pos = [e \in Entities |-> Nothing]
    /\ start_pos = [e \in Entities |-> Nothing]

\* entity 1 is the root, 2 its child, 3 the child of 2
Chain == [e \in Entities |-> e - 1]

\* the hierarchies over Entities: every parent was created before its child
Forests == {h \in [Entities -> Entities \cup {None}] : \A e \in Entities : h[e] < e}

\* Spec: the session table and the channel.  Clicks and visibility changes on
\* the widgets 2 and 3, stacked 1 < 2 < 3, the pointer at rest.
Init ==
    InitWith(Chain, [e \in Entities |-> Transform("Pixel", << 2, 4 >>, e)], Screen)

Next ==
    \/ Run
    \/ \E type \in {"ClickStart", "ClickStop"}, e \in {2, 3} : Post(type, e)
    \/ ToggleHidden(2)
    \/ ToggleHiddenPropagate(3)

Spec == Init /\ [][Next]_vars

\* SpecDrag: one widget, 3, of either scale mode, dragged by a moving pointer,
\* dropped by a click-stop or by being hidden.
DragScenes ==
    {[e \in Entities |->
        CASE e = 1 -> Transform("Pixel", << 4, 8 >>, 1)
          [] e = 2 -> Transform("Percent", << 2, 4 >>, 2)
          [] e = 3 -> Transform(m, << 2, 4 >>, 3)] : m \in ScaleModes}

InitDrag == \E t \in DragScenes : InitWith(Chain, t, Screen)

NextDrag ==
    \/ Run
    \/ \E type \in {"ClickStart", "ClickStop"} : Post(type, 3)
    \/ \E m \in {Nothing, << 1, 1 >>} : MoveMouse(m)
    \/ ToggleHidden(3)

SpecDrag == InitDrag /\ [][NextDrag]_vars

\* SpecMove: the widget 3 dragged below a parent and a grandparent of every
\* scale mode and size.
MoveScenes ==
    {t \in [Entities -> {Transform(m, sz, 0) : m \in ScaleModes, sz \in Sizes}] :
        t[3].width = 2}

InitMove == \E t \in MoveScenes : InitWith(Chain, t, Screen)

NextMove ==
    \/ Run
    \/ Post("ClickStart", 3)
    \/ \E m \in {Nothing, << 1, 1 >>} : MoveMouse(m)

SpecMove == InitMove /\ [][NextMove]_vars

\* SpecDrop: the widget 3 dropped over the widgets 1 and 2, for every stacking
\* order of the three and every visibility of the two.
DropScenes ==
    {[e \in Entities |-> Transform("Pixel", << 2, 4 >>, z[e])] :
        z \in [Entities -> {1, 2}]}

InitDrop == \E t \in DropScenes : InitWith(Chain, t, Screen)

NextDrop ==
    \/ Run
    \/ \E type \in {"ClickStart", "ClickStop"} : Post(type, 3)
    \/ ToggleHidden(1)
    \/ ToggleHiddenPropagate(2)

SpecDrop == InitDrop /\ [][NextDrop]_vars

\* SpecHide: the widget 3 is hidden while it is under drag and stays hidden;
\* clicks on it keep arriving.  A run that finds 3 hidden and without session
\* is therefore a run after the one that first observed 3 hidden.
NextHide ==
    \/ Run
    \/ \E type \in {"ClickStart", "ClickStop"} : Post(type, 3)
    \/ \E m \in {Nothing, << 1, 1 >>} : MoveMouse(m)
    \/ HideDragged(3)

SpecHide == InitDrag /\ [][NextHide]_vars

\* SpecMarker: the widget 3 gains and loses the Draggable marker and is hidden
\* and shown while clicks and events of another kind arrive for it.
NextMarker ==
    \/ Run
    \/ \E type \in PostedTypes : Post(type, 3)
    \/ \E m \in {Nothing, << 1, 1 >>} : MoveMouse(m)
    \/ ToggleDraggable(3)
    \/ ToggleHidden(3)

SpecMarker == Init /\ [][NextMarker]_vars

\* SpecMissing: the widgets 2 and 3 are clicked; the transform of 3 is removed
\* before, or while, 3 has a session.
NextMissing ==
    \/ Run
    \/ \E type \in {"ClickStart", "ClickStop"}, e \in {2, 3} : Post(type, e)
    \/ RemoveTransform(3)

SpecMissing == Init /\ [][NextMissing]_vars

\* SpecScale: the resolver applied to every entity of every hierarchy, with
\* every choice of scale mode, size and missing transforms.
InitScale ==
    \E h \in Forests :
    \E present \in SUBSET Entities :
    \E t \in [present -> {Transform(m, sz, 0) : m \in ScaleModes, sz \in Sizes}] :
        InitWith(h, t, Screen)

NextScale == \E e \in Entities : Resolve(e)

SpecScale == InitScale /\ [][NextScale]_vars

(***************************************************************************)
(* Properties.  `frame` describes the run that has just ended; it is       *)
(* cleared by every step of another system, so a property of `frame` is a  *)
(* property of the state at the end of a run.                              *)
(***************************************************************************)
\* a run has just ended without aborting
Ended == frame.ran /\ ~panicked

\* positions of the events of kind `type` addressed to e in the sequence seq
EventsOf(seq, type, e) ==
    {i \in 1..Len(seq) : seq[i].event_type = type /\ seq[i].target = e}

\* entities whose session was started or restarted by this frame's events
StartedNow == Started(frame.consumed, draggables)

\* e had a session when the i-th consumed event was processed
HadSessionAt(e, i) ==
    \/ e \in DOMAIN frame.before.record
    \/ \E j \in EventsOf(frame.consumed, "ClickStart", e) : j < i /\ e \in draggables

\* a ClickStop for e was consumed this frame while e had a session
StopObserved(e) ==
    \E i \in EventsOf(frame.consumed, "ClickStop", e) : HadSessionAt(e, i)

\* e was Hidden or HiddenPropagate when the run executed
HiddenObserved(e) == e \in hiddens \/ e \in hidden_props

\* e had a session once the events of the frame were ingested
SessionAfterIngest(e) == e \in DOMAIN frame.before.record \/ e \in StartedNow

\* C1: at the end of a run the session table holds no entity whose ClickStop
\* was consumed this frame while it had a session, and no entity that was
\* Hidden or HiddenPropagate during the run.
C1_RemovedInSameFrame ==
    Ended => \A e \in Entities :
                (StopObserved(e) \/ HiddenObserved(e)) => e \notin DOMAIN record

\* C1 witness: one session ended by a ClickStop, another one ended by being
\* hidden with no ClickStop for it on the bus.
C1_Witness ==
    /\ Ended
    /\ \E e, f \in Entities :
         /\ e # f
         /\ StopObserved(e) /\ ~HiddenObserved(e)
         /\ f \in DOMAIN frame.before.record /\ HiddenObserved(f)
         /\ EventsOf(frame.consumed, "ClickStop", f) = {}

\* the session of e met a termination condition this frame
TerminationObserved(e) ==
    StopObserved(e) \/ (HiddenObserved(e) /\ SessionAfterIngest(e))

\* C2: a frame that terminates the session of e emits exactly one Dropped event
\* for e, however many ClickStops for e were consumed and whether or not e is
\* hidden; an entity whose ClickStops found no session, and which is not
\* terminated otherwise, gets no Dropped event.
C2_ExactlyOneDropped ==
    Ended => \A e \in Entities :
                Cardinality(EventsOf(frame.emitted, "Dropped", e))
                    = IF TerminationObserved(e) THEN 1 ELSE 0

\* C2 witness: two ClickStops for a hidden entity under drag, one Dropped event.
C2_Witness ==
    /\ Ended
    /\ \E e \in Entities :
         /\ e \in DOMAIN frame.before.record
         /\ Cardinality(EventsOf(frame.consumed, "ClickStop", e)) >= 2
         /\ HiddenObserved(e)
         /\ Cardinality(EventsOf(frame.emitted, "Dropped", e)) = 1

\* the pointer position the update loop took as `prev` of e this frame
LastOf(e) ==
    IF e \in StartedNow THEN frame.mouse_pos ELSE frame.before.record[e].prev

\* C3: every Dragging event of a session carries the pointer of the frame as
\* absolute position and (pointer - pointer of the frame whose ClickStart
\* started the session) as offset; the origin of a session never changes
\* while the session is not restarted.
C3_DraggingCarriesOffset ==
    Ended =>
      /\ \A e \in frame.keys :
           /\ EventsOf(frame.emitted, "Dragging", e) # {}
           /\ \A i \in EventsOf(frame.emitted, "Dragging", e) :
                /\ frame.emitted[i].new_position = frame.mouse_pos
                /\ frame.emitted[i].offset_from_mouse
                       = VSub(frame.mouse_pos, frame.origin[e])
      /\ \A e \in DOMAIN record : record[e].first = click_pos[e]

\* C3 witness: a later frame of a session, the pointer away from the click.
C3_Witness ==
    /\ Ended
    /\ \E e \in DOMAIN record :
         /\ e \notin StartedNow
         /\ frame.mouse_pos # click_pos[e]
         /\ \E i \in EventsOf(frame.emitted, "Dragging", e) :
              frame.emitted[i].offset_from_mouse # << 0, 0 >>

\* positions of the effects `op` on e in the effect log of the frame
LogOf(op, e) ==
    {i \in 1..Len(frame.log) : frame.log[i].op = op /\ frame.log[i].entity = e}

\* the local position the update loop must leave e at
UpdatedPosition(e) ==
    LET scale  == get_scale_for_entity(e, hierarchy, frame.before.ui_transforms,
                                       screen_dimensions)
        change == VSub(frame.mouse_pos, LastOf(e))
        old    == frame.before.ui_transforms[e]
    IN  << RAdd(old.local_x, RMul(scale[1], RInt(change[1]))),
           RAdd(old.local_y, RMul(scale[2], RInt(change[2]))) >>

\* C4: a session marked for termination, by ClickStop or by being hidden,
\* gets its final update in the same frame: the Dragging event of e is on the
\* bus and the position of e is updated before the Dropped event of e is
\* appended, and the hit test reads the transform of e after the update.
C4_FinalUpdateBeforeDrop ==
    Ended => \A e \in frame.click_stopped :
      /\ EventsOf(frame.emitted, "Dragging", e) # {}
      /\ EventsOf(frame.emitted, "Dropped", e) # {}
      /\ \A i \in EventsOf(frame.emitted, "Dragging", e) :
         \A j \in EventsOf(frame.emitted, "Dropped", e) : i < j
      /\ LogOf("Move", e) # {} /\ LogOf("HitTest", e) # {} /\ LogOf("Dropped", e) # {}
      /\ \A m \in LogOf("Move", e) : \A h \in LogOf("HitTest", e) :
         \A d \in LogOf("Dropped", e) : m < h /\ h < d
      /\ \A h \in LogOf("HitTest", e) :
           /\ frame.log[h].seen = << ui_transforms[e] >>
           /\ << frame.log[h].seen[1].local_x, frame.log[h].seen[1].local_y >>
                  = UpdatedPosition(e)

\* C4 witness: a session ended by hidden detection alone, moved in its last frame.
C4_Witness ==
    /\ Ended
    /\ \E e \in frame.click_stopped :
         /\ EventsOf(frame.consumed, "ClickStop", e) = {}
         /\ HiddenObserved(e)
         /\ ui_transforms[e] # frame.before.ui_transforms[e]

\* C8: a ClickStart on an entity that already has a session replaces origin and
\* last by the pointer of the frame; the one Dragging event of the entity in
\* that frame has offset (0, 0).
C8_RestartResetsOrigin ==
    Ended => \A e \in (DOMAIN frame.before.record) \cap StartedNow :
      /\ Cardinality(EventsOf(frame.emitted, "Dragging", e)) = 1
      /\ \A i \in EventsOf(frame.emitted, "Dragging", e) :
           frame.emitted[i].offset_from_mouse = << 0, 0 >>
      /\ e \in DOMAIN record =>
           record[e] = [first |-> frame.mouse_pos, prev |-> frame.mouse_pos]

\* C8 witness: a restart with the pointer away from the old origin.
C8_Witness ==
    /\ Ended
    /\ \E e \in (DOMAIN frame.before.record) \cap StartedNow :
         /\ e \in DOMAIN record
         /\ frame.before.record[e].first # frame.mouse_pos

\* C5: the target a Dropped event names is none, or an entity that owns a
\* transform, is neither Hidden nor HiddenPropagate and is stacked strictly
\* below the dragged entity; it is never the dragged entity itself.
C5_DropTargetEligible ==
    Ended => \A i \in 1..Len(frame.emitted) :
      frame.emitted[i].event_type = "Dropped" =>
        LET e == frame.emitted[i].target
            t == frame.emitted[i].dropped_on
        IN  \/ t = None
            \/ /\ t \in DOMAIN ui_transforms
               /\ t \notin hiddens
               /\ t \notin hidden_props
               /\ ui_transforms[t].global_z < ui_transforms[e].global_z
               /\ t # e

\* C5 witness: a drop that names a target although a hidden widget and a widget
\* of the dragged widget's own stacking order are under the pointer as well.
C5_Witness ==
    /\ Ended
    /\ \E i \in 1..Len(frame.emitted) :
         /\ frame.emitted[i].event_type = "Dropped"
         /\ frame.emitted[i].dropped_on # None
         /\ frame.emitted[i].target \in frame.under
         /\ \E h \in frame.under : h \in hiddens \/ h \in hidden_props

\* the product of the widths and of the heights of the ancestors of a Percent
\* entity up to its nearest Pixel ancestor, times the screen's when it has none
RECURSIVE AncestorProduct(_)
AncestorProduct(e) ==
    LET p == hierarchy[e] IN
    IF p = None THEN << screen_dimensions.width, screen_dimensions.height >>
    ELSE IF ui_transforms[p].scale_mode = "Pixel"
         THEN << ui_transforms[p].width, ui_transforms[p].height >>
         ELSE << ui_transforms[p].width * AncestorProduct(p)[1],
                 ui_transforms[p].height * AncestorProduct(p)[2] >>

\* e and its ancestors up to the nearest Pixel one own a transform
RECURSIVE PathOwnsTransforms(_)
PathOwnsTransforms(e) ==
    /\ e \in DOMAIN ui_transforms
    /\ \/ ui_transforms[e].scale_mode = "Pixel"
       \/ hierarchy[e] = None
       \/ PathOwnsTransforms(hierarchy[e])

\* C6: the resolver multiplies across levels: a Percent entity resolves to
\* 1 / (product of the widths of its ancestors up to the nearest Pixel one, or
\* of all of them times the screen width), likewise for heights; a Pixel entity
\* resolves to (1, 1).  Nothing above the nearest Pixel ancestor is read.
C6_ScaleIsProduct ==
    resolved # Nothing =>
      LET e == resolved[1] IN
      PathOwnsTransforms(e) =>
        resolved[2] = IF ui_transforms[e].scale_mode = "Pixel"
                      THEN << ROne, ROne >>
                      ELSE << Rat(1, AncestorProduct(e)[1]),
                              Rat(1, AncestorProduct(e)[2]) >>

\* C6 witness: a Percent entity below a Percent parent below a Pixel grandparent.
C6_Witness ==
    /\ resolved # Nothing
    /\ resolved[1] = 3
    /\ hierarchy[3] = 2 /\ hierarchy[2] = 1
    /\ {1, 2, 3} \subseteq DOMAIN ui_transforms
    /\ ui_transforms[3].scale_mode = "Percent"
    /\ ui_transforms[2].scale_mode = "Percent"
    /\ ui_transforms[1].scale_mode = "Pixel"
    /\ ui_transforms[1].width # ui_transforms[2].width
    /\ resolved[2] = << Rat(1, ui_transforms[2].width * ui_transforms[1].width),
                        Rat(1, ui_transforms[2].height * ui_transforms[1].height) >>

\* the movement of the pointer the update loop applied to e
ChangeOf(e) == VSub(frame.mouse_pos, LastOf(e))

\* the change of the local position of e in the frame
MovedBy(e) ==
    << RAdd(ui_transforms[e].local_x,
            RMul(RInt(-1), frame.before.ui_transforms[e].local_x)),
       RAdd(ui_transforms[e].local_y,
            RMul(RInt(-1), frame.before.ui_transforms[e].local_y)) >>

\* e has a Pixel-mode parent
UnderPixelParent(e) ==
    /\ hierarchy[e] # None
    /\ hierarchy[e] \in DOMAIN ui_transforms
    /\ ui_transforms[hierarchy[e]].scale_mode = "Pixel"

\* C7 as stated: a dragged widget below a Pixel-mode parent moves by the
\* pointer delta, whatever its own scale mode.
C7_OneToOneUnderPixelParent ==
    Ended => \A e \in frame.keys :
      UnderPixelParent(e) =>
        MovedBy(e) = << RInt(ChangeOf(e)[1]), RInt(ChangeOf(e)[2]) >>

\* C7 amended: a dragged widget below a Pixel-mode parent moves by the pointer
\* delta when it is Pixel-mode itself, and by the pointer delta divided by the
\* parent's width and height when it is Percent-mode; in both cases whatever
\* the grandparents are.
C7_MovesByParentSize ==
    Ended => \A e \in frame.keys :
      UnderPixelParent(e) =>
        MovedBy(e) =
          IF ui_transforms[e].scale_mode = "Pixel"
          THEN << RInt(ChangeOf(e)[1]), RInt(ChangeOf(e)[2]) >>
          ELSE << Rat(ChangeOf(e)[1], ui_transforms[hierarchy[e]].width),
                  Rat(ChangeOf(e)[2], ui_transforms[hierarchy[e]].height) >>

\* C7 witness: a Percent widget below a Pixel parent below a Percent
\* grandparent, dragged along both axes.
C7_Witness ==
    /\ Ended
    /\ \E e \in frame.keys :
         /\ UnderPixelParent(e)
         /\ ui_transforms[e].scale_mode = "Percent"
         /\ hierarchy[hierarchy[e]] # None
         /\ ui_transforms[hierarchy[hierarchy[e]]].scale_mode = "Percent"
         /\ ChangeOf(e)[1] # 0 /\ ChangeOf(e)[2] # 0

\* the run consumed no event of another system: every session's own Dragging
\* event is unread when the next run starts, so a run with a session in the
\* table always consumes the events the previous run wrote
NoInputConsumed ==
    \A i \in 1..Len(frame.consumed) :
        frame.consumed[i].event_type \in {"Dragging", "Dropped"}

\* the session table is as before the run but for `prev`, and of the transforms
\* only the local position of entities with a session has changed
OnlyUpdated ==
    /\ DOMAIN record = DOMAIN frame.before.record
    /\ \A e \in DOMAIN record : record[e].first = frame.before.record[e].first
    /\ \A e \in DOMAIN ui_transforms :
         \/ ui_transforms[e] = frame.before.ui_transforms[e]
         \/ /\ e \in DOMAIN record
            /\ ui_transforms[e] =
                 [frame.before.ui_transforms[e] EXCEPT
                    !.local_x = ui_transforms[e].local_x,
                    !.local_y = ui_transforms[e].local_y]

\* C9 as stated: a run that consumes no new event of another system leaves
\* the set of entities with a session and every origin unchanged.
C9_NoInputNoChange == (Ended /\ NoInputConsumed) => OnlyUpdated

\* C9 amended: a run that consumes no new event of another system, while no
\* entity with a session is Hidden or HiddenPropagate, leaves the set of
\* entities with a session and every origin unchanged; only last, which
\* becomes the pointer, and the local position of the dragged widgets change.
C9_NoInputNoChangeUnlessHidden ==
    (Ended /\ NoInputConsumed
           /\ \A e \in DOMAIN frame.before.record : ~HiddenObserved(e)) =>
      /\ OnlyUpdated
      /\ \A e \in DOMAIN record : record[e].prev = frame.mouse_pos

\* C9 witness: a run that consumes nothing but the previous run's Dragging
\* event and moves the dragged widget.
C9_Witness ==
    /\ Ended
    /\ NoInputConsumed
    /\ \E e \in DOMAIN record :
         /\ e \in DOMAIN frame.before.record
         /\ record[e].prev # frame.before.record[e].prev
         /\ ui_transforms[e] # frame.before.ui_transforms[e]

\* C10: a run consumes all unread events, in arrival order; what is unread
\* after the run is exactly what the run itself appended, Dragging and Dropped
\* events only, so no event is read twice, none is skipped, and the events of a
\* run are input of the next run, not of the run that wrote them.
C10_EachEventReadOnce ==
    Ended =>
      /\ frame.consumed = frame.before.ui_events
      /\ ui_events = frame.emitted
      /\ \A i \in 1..Len(frame.emitted) :
           frame.emitted[i].event_type \in {"Dragging", "Dropped"}

\* C10 witness: a run that consumes events of the previous run and events of
\* other systems, and appends events of its own.
C10_Witness ==
    /\ Ended
    /\ \E i, j \in 1..Len(frame.consumed) :
         /\ frame.consumed[i].event_type = "Dragging"
         /\ frame.consumed[j].event_type = "ClickStop"
         /\ i < j
    /\ Len(frame.emitted) >= 2


\* the run left the local position of e where it was
NotMoved(e) ==
    /\ ui_transforms[e].local_x = frame.before.ui_transforms[e].local_x
    /\ ui_transforms[e].local_y = frame.before.ui_transforms[e].local_y

\* e was hidden during the run and its session had been ended by an earlier
\* run: under SpecHide a widget is hidden only while it has a session and is
\* never shown again, so the run that first observed e hidden has removed the
\* session and this run is a later one
HiddenSinceEarlierFrame(e) ==
    HiddenObserved(e) /\ e \notin DOMAIN frame.before.record

\* C11: in a frame after the one in which the dragged widget e was first
\* observed hidden, e being hidden still, no Dragging event is emitted for e
\* and the position of e is not changed.
C11_NoUpdateOnceHidden ==
    Ended => \A e \in Entities :
      HiddenSinceEarlierFrame(e) =>
        /\ EventsOf(frame.emitted, "Dragging", e) = {}
        /\ NotMoved(e)

\* C11, the part the code keeps: the position of e is not changed in such a
\* frame, and e has no session when the frame ends.
C11_NotMovedOnceHidden ==
    Ended => \A e \in Entities :
      HiddenSinceEarlierFrame(e) => NotMoved(e) /\ e \notin DOMAIN record

\* C11 witness: a ClickStart on the hidden widget, consumed in a later frame
\* with the pointer away from where the widget was dropped.
C11_Witness ==
    /\ Ended
    /\ \E e \in Entities :
         /\ HiddenSinceEarlierFrame(e)
         /\ e \in StartedNow
         /\ ui_transforms[e].local_x # RInt(0)
         /\ EventsOf(frame.emitted, "Dragging", e) # {}


\* C12: an entity gains a session in a frame only if a ClickStart for it was
\* consumed while it was Draggable, and loses its session only if a ClickStop
\* for it was consumed or it was hidden; a session that is neither started nor
\* ended in the frame keeps its origin, whatever other events were consumed
\* and whether or not the entity is still Draggable.
C12_NoOtherTransitions ==
    Ended => \A e \in Entities :
      /\ (e \in DOMAIN record /\ e \notin DOMAIN frame.before.record) =>
            (EventsOf(frame.consumed, "ClickStart", e) # {} /\ e \in draggables)
      /\ (e \in DOMAIN frame.before.record /\ e \notin DOMAIN record) =>
            (EventsOf(frame.consumed, "ClickStop", e) # {} \/ HiddenObserved(e))
      /\ (e \in DOMAIN frame.before.record /\ e \in DOMAIN record /\ e \notin StartedNow) =>
            record[e].first = frame.before.record[e].first

\* C12 witness: a session whose entity is no longer Draggable survives a frame
\* that consumes a ClickStart for it and an event of another kind, with the
\* pointer away from the origin.
C12_Witness ==
    /\ Ended
    /\ \E e \in DOMAIN frame.before.record :
         /\ e \notin draggables
         /\ EventsOf(frame.consumed, "ClickStart", e) # {}
         /\ EventsOf(frame.consumed, "HoverStart", e) # {}
         /\ e \in DOMAIN record
         /\ record[e].first # frame.mouse_pos


\* entities that were in the session table after ingestion and owned no
\* transform when the run started
WithoutTransform == {e \in frame.keys : e \notin DOMAIN frame.before.ui_transforms}

\* C13: a run that finds an entity without transform in the session table,
\* be its session old or created by a ClickStart of this frame, aborts: the
\* entity is not skipped, the drop loop is not reached, and nothing but
\* Dragging events written before the abort is on the bus.
C13_MissingTransformIsFatal ==
    (frame.ran /\ WithoutTransform # {}) =>
      /\ panicked
      /\ \A i \in 1..Len(frame.emitted) : frame.emitted[i].event_type = "Dragging"
      /\ \A e \in WithoutTransform : LogOf("Move", e) = {}

\* C13 witness: two sessions, the one created in this frame for an entity
\* without transform, the other for an entity that owns one.
C13_Witness ==
    /\ frame.ran /\ panicked
    /\ \E e \in WithoutTransform, f \in frame.keys :
         /\ e \in StartedNow /\ e \notin DOMAIN frame.before.record
         /\ f \in DOMAIN frame.before.ui_transforms
         /\ LogOf("Move", f) # {}


\* e is a Percent-mode entity whose parent exists and owns no transform
ParentWithoutTransform(e) ==
    /\ e \in DOMAIN ui_transforms
    /\ ui_transforms[e].scale_mode = "Percent"
    /\ hierarchy[e] # None
    /\ hierarchy[e] \notin DOMAIN ui_transforms

\* C14: resolving a Percent-mode entity whose parent exists and owns no
\* transform does not abort: it returns a pair of scale factors (the scale of
\* the parent divided by the width and height of the screen).
C14_FallsBackToScreen ==
    (resolved # Nothing /\ ParentWithoutTransform(resolved[1])) =>
      resolved[2] # Panic

\* C14 witness: the resolver aborts for a Percent-mode entity whose parent
\* owns no transform, the grandparent owning one.
C14_Witness ==
    /\ resolved # Nothing
    /\ ParentWithoutTransform(resolved[1])
    /\ hierarchy[hierarchy[resolved[1]]] \in DOMAIN ui_transforms
    /\ resolved[2] = Panic


\* C15: a run emits exactly one Dragging event for every entity that has a
\* session once the events are ingested, the sessions marked for termination
\* included, and none for any other entity; every session that remains has
\* last equal to the pointer of the frame.
C15_OneDraggingPerSession ==
    Ended =>
      /\ \A e \in Entities :
           Cardinality(EventsOf(frame.emitted, "Dragging", e))
               = IF SessionAfterIngest(e) THEN 1 ELSE 0
      /\ \A e \in DOMAIN record : record[e].prev = frame.mouse_pos

\* C15 witness: a session marked for termination by a ClickStop gets its one
\* Dragging event in a frame in which the pointer has moved.
C15_Witness ==
    /\ Ended
    /\ \E e \in DOMAIN frame.before.record :
         /\ StopObserved(e)
         /\ e \notin DOMAIN record
         /\ frame.before.record[e].prev # frame.mouse_pos
         /\ Cardinality(EventsOf(frame.emitted, "Dragging", e)) = 1


\* the k-th ancestor of e (e itself for k = 0), None above the root
RECURSIVE Ancestor(_, _)
Ancestor(e, k) ==
    IF k = 0 THEN e
    ELSE IF Ancestor(e, k - 1) = None THEN None ELSE hierarchy[Ancestor(e, k - 1)]

\* the number of ancestors of e
Depth(e) == CHOOSE k \in 0..Cardinality(Entities) :
                Ancestor(e, k) # None /\ Ancestor(e, k + 1) = None

\* e and every ancestor of e own a transform
AncestorsOwnTransforms(e) ==
    \A k \in 0..Depth(e) : Ancestor(e, k) \in DOMAIN ui_transforms

\* C16: called for an entity of a forest in which the entity and all its
\* ancestors own a transform, the resolver returns a scale after at most
\* (depth of the entity + 1) calls: it walks the parent chain, one call per
\* entity, and its last call is for the first Pixel-mode entity on the chain,
\* or for the root when there is none.
C16_ResolverTerminates ==
    (resolved # Nothing /\ AncestorsOwnTransforms(resolved[1])) =>
      LET e     == resolved[1]
          calls == resolved[3]
      IN  /\ resolved[2] # Panic
          /\ Len(calls) <= Depth(e) + 1
          /\ \A i \in 1..Len(calls) : calls[i] = Ancestor(e, i - 1)
          /\ \A i \in 1..(Len(calls) - 1) :
                ui_transforms[calls[i]].scale_mode = "Percent"
          /\ \/ ui_transforms[calls[Len(calls)]].scale_mode = "Pixel"
             \/ hierarchy[calls[Len(calls)]] = None

\* C16 witness: a Percent entity of depth 2 below a Pixel parent: two calls,
\* the root is not visited.
C16_Witness ==
    /\ resolved # Nothing
    /\ AncestorsOwnTransforms(resolved[1])
    /\ Depth(resolved[1]) = 2
    /\ ui_transforms[resolved[1]].scale_mode = "Percent"
    /\ ui_transforms[hierarchy[resolved[1]]].scale_mode = "Pixel"
    /\ Len(resolved[3]) = 2


\* the local position of e minus its local position when its session started
MovedSinceStart(e) ==
    << RAdd(ui_transforms[e].local_x, RMul(RInt(-1), frame.start[e][1])),
       RAdd(ui_transforms[e].local_y, RMul(RInt(-1), frame.start[e][2])) >>

\* C17: after every run in which the Pixel-mode widget e had a session, the
\* local position of e minus its local position when the session was started
\* (or restarted) equals last - origin, which is the offset the Dragging event
\* of e in this run carries.
C17_Telescoping ==
    Ended => \A e \in frame.keys :
      ui_transforms[e].scale_mode = "Pixel" =>
        LET offset == VSub(frame.mouse_pos, frame.origin[e]) IN
        /\ MovedSinceStart(e) = << RInt(offset[1]), RInt(offset[2]) >>
        /\ e \in DOMAIN record => VSub(record[e].prev, record[e].first) = offset
        /\ \A i \in EventsOf(frame.emitted, "Dragging", e) :
             frame.emitted[i].offset_from_mouse = offset

\* C17 witness: a later run of a session that started with the widget away
\* from its initial position: before the run the pointer was on the origin and
\* the widget where the session started, the run moves both away.
C17_Witness ==
    /\ Ended
    /\ \E e \in DOMAIN record :
         /\ ui_transforms[e].scale_mode = "Pixel"
         /\ e \notin StartedNow
         /\ frame.start[e] # << RInt(0), RInt(0) >>
         /\ frame.before.record[e].prev # frame.mouse_pos
         /\ frame.before.record[e].prev = frame.before.record[e].first
         /\ LocalPos(frame.before.ui_transforms, e) = frame.start[e]
         /\ MovedSinceStart(e) # << RInt(0), RInt(0) >>


\* C18: a run that consumes a ClickStart for the Draggable entity e, be it
\* the start of a session or the restart of one, leaves the local position of
\* e where it was: last is the pointer of the frame before the change is
\* computed, so a restart drops the pointer movement since the previous run.
C18_StartDoesNotMove ==
    Ended => \A e \in StartedNow : NotMoved(e)

\* C18 witness: a restart in a frame whose pointer is away from last.
C18_Witness ==
    /\ Ended
    /\ \E e \in StartedNow \cap DOMAIN frame.before.record :
         /\ frame.before.record[e].prev # frame.mouse_pos
         /\ e \in DOMAIN record
         /\ NotMoved(e)


\* the kinds of the ClickStart and ClickStop events for e the run consumed, in
\* arrival order
ClicksFor(e) ==
    LET clicks == SelectSeq(frame.consumed,
                            LAMBDA ev : /\ ev.target = e
                                        /\ ev.event_type \in {"ClickStart", "ClickStop"})
    IN  [i \in 1..Len(clicks) |-> clicks[i].event_type]

\* e is Draggable, had no session, and the run consumed the clicks `kinds` for it
ClickedWithoutSession(e, kinds) ==
    /\ e \in draggables
    /\ e \notin DOMAIN frame.before.record
    /\ ClicksFor(e) = kinds

\* a click without drag: one Dragging event with zero offset, then one Dropped
\* event, e not moved, no session of e left
ClickWithoutDrag(e) ==
    /\ Cardinality(EventsOf(frame.emitted, "Dragging", e)) = 1
    /\ Cardinality(EventsOf(frame.emitted, "Dropped", e)) = 1
    /\ \A i \in EventsOf(frame.emitted, "Dragging", e) :
         /\ frame.emitted[i].offset_from_mouse = << 0, 0 >>
         /\ \A j \in EventsOf(frame.emitted, "Dropped", e) : i < j
    /\ NotMoved(e)
    /\ e \notin DOMAIN record

\* the session of e was started in this frame and no ClickStop took effect
SessionStarted(e) ==
    /\ EventsOf(frame.emitted, "Dropped", e) = {}
    /\ e \in DOMAIN record
    /\ record[e] = [first |-> frame.mouse_pos, prev |-> frame.mouse_pos]

\* C19 as stated: ClickStart then ClickStop in one frame for a Draggable
\* entity without session is a click without drag; ClickStop then ClickStart
\* leaves the entity with a session at the end of the frame.
C19_ClickOrder ==
    Ended => \A e \in Entities :
      /\ ClickedWithoutSession(e, << "ClickStart", "ClickStop" >>) => ClickWithoutDrag(e)
      /\ ClickedWithoutSession(e, << "ClickStop", "ClickStart" >>) => SessionStarted(e)

\* C19 amended: ClickStart then ClickStop is a click without drag; ClickStop
\* then ClickStart leaves the entity with a session at the end of the frame
\* when the entity is neither Hidden nor HiddenPropagate, and is a click
\* without drag as well when it is: the hidden scan ends the new session.
C19_ClickOrderUnlessHidden ==
    Ended => \A e \in Entities :
      /\ ClickedWithoutSession(e, << "ClickStart", "ClickStop" >>) => ClickWithoutDrag(e)
      /\ ClickedWithoutSession(e, << "ClickStop", "ClickStart" >>) =>
            IF HiddenObserved(e) THEN ClickWithoutDrag(e) ELSE SessionStarted(e)

\* C19 witness: ClickStop then ClickStart for a visible entity, the pointer
\* away from its initial position.
C19_Witness ==
    /\ Ended
    /\ frame.mouse_pos # MousePos(Nothing, screen_dimensions)
    /\ \E e \in Entities :
         /\ ClickedWithoutSession(e, << "ClickStop", "ClickStart" >>)
         /\ ~HiddenObserved(e)
         /\ SessionStarted(e)


\* C20: a run, aborted or not, changes nothing of the scene but the local x
\* and local y of entities that have a session once the events are ingested:
\* the other fields of their transforms, the transforms of all other entities
\* (drop targets included), the set of entities owning a transform, the
\* hierarchy, Hidden, HiddenPropagate and Draggable are as before the run.
C20_OnlyLocalPosition ==
    [][frame'.ran =>
        /\ UNCHANGED << hierarchy, hiddens, hidden_props, draggables >>
        /\ DOMAIN ui_transforms' = DOMAIN ui_transforms
        /\ \A e \in DOMAIN ui_transforms :
             IF e \in (DOMAIN record) \cup Started(ReadNew(ui_events), draggables)
             THEN ui_transforms'[e] =
                    [ui_transforms[e] EXCEPT !.local_x = ui_transforms'[e].local_x,
                                             !.local_y = ui_transforms'[e].local_y]
             ELSE ui_transforms'[e] = ui_transforms[e]]_vars

\* C20 witness: a run that moves the dragged widget and drops it on another
\* widget.
C20_Witness ==
    /\ Ended
    /\ \E i \in 1..Len(frame.emitted) :
         /\ frame.emitted[i].event_type = "Dropped"
         /\ frame.emitted[i].dropped_on # None
         /\ ~NotMoved(frame.emitted[i].target)
         /\ ui_transforms[frame.emitted[i].dropped_on]
                = frame.before.ui_transforms[frame.emitted[i].dropped_on]

====
